---- MODULE Spec2Model ----
(***************************************************************************)
(* Model of 03_algorithms_c/algorithms.c: calcular_media_ponderada,        *)
(* comparar_desempenho and ordenar_por_desempenho.                         *)
(*                                                                         *)
(* A C float is an IEEE-754 binary32 value, kept here as its three fields  *)
(* [s, e, m] (sign bit, biased exponent 0..255, 23-bit fraction).  The     *)
(* arithmetic below rounds to nearest, ties to even, as the default C      *)
(* rounding mode does; comparisons follow IEEE (NaN is unordered).         *)
(***************************************************************************)
EXTENDS Integers, Sequences, FiniteSets, TLC

(* ------------------------------------------------------------------ *)
(* Bounds of the model                                                  *)
(* ------------------------------------------------------------------ *)
MaxCount == 3
MaxAlunos == 4

(* ------------------------------------------------------------------ *)
(* binary32                                                             *)
(* ------------------------------------------------------------------ *)
MantBits == 23
ExpBias == 127
ExpMax == 255

(* 2^n for 0 <= n <= 30, the powers of two an int holds *)
RECURSIVE Pow2Rec(_)
Pow2Rec(n) == IF n = 0 THEN 1 ELSE 2 * Pow2Rec(n - 1)

Pow2Tab == [n \in 0..30 |-> Pow2Rec(n)]

Pow2(n) == Pow2Tab[n]

Abs(x) == IF x < 0 THEN -x ELSE x

FZero == [s |-> 0, e |-> 0, m |-> 0]
FNegZero == [s |-> 1, e |-> 0, m |-> 0]
FNaN == [s |-> 0, e |-> ExpMax, m |-> Pow2(MantBits - 1)]
FInf(sg) == [s |-> sg, e |-> ExpMax, m |-> 0]

IsNaN(f) == f.e = ExpMax /\ f.m # 0
IsInf(f) == f.e = ExpMax /\ f.m = 0
IsZero(f) == f.e = 0 /\ f.m = 0
IsFinite(f) == f.e < ExpMax

(* Value of num/den * 2^x, num > 0, den > 0, scaled so that the integer  *)
(* part of num/den has exactly MantBits+1 bits.                          *)
MantLo == Pow2(MantBits)
MantHi == Pow2(MantBits + 1)

RECURSIVE Scale(_, _, _)
Scale(num, den, x) ==
    IF num \div den < MantLo THEN Scale(2 * num, den, x - 1)
    ELSE IF num \div den >= MantHi THEN Scale(num, 2 * den, x + 1)
    ELSE <<num, den, x>>

(* The binary32 nearest to (-1)^sg * num/den * 2^x, ties to even.        *)
(* Results below the normal range are not produced by the bounded        *)
(* inputs and are not modelled (the exponent field would leave 1..254).  *)
RoundF(sg, num, den, x) ==
    IF num = 0 THEN [s |-> sg, e |-> 0, m |-> 0]
    ELSE LET t == Scale(num, den, x)
             q == t[1] \div t[2]
             r == t[1] % t[2]
             up == (2 * r > t[2]) \/ (2 * r = t[2] /\ q % 2 = 1)
             q1 == IF up THEN q + 1 ELSE q
             carry == q1 = MantHi
             q2 == IF carry THEN MantLo ELSE q1
             ex == (IF carry THEN t[3] + 1 ELSE t[3]) + MantBits + ExpBias
         IN  IF ex >= ExpMax THEN FInf(sg)
             ELSE [s |-> sg, e |-> ex, m |-> q2 - MantLo]

(* The float with value mant * 2^x (mant an integer of any sign).        *)
Flt(mant, x) == RoundF(IF mant < 0 THEN 1 ELSE 0, Abs(mant), 1, x)

(* A finite normal or zero float as <<M, X>> with value M * 2^X, M >= 0  *)
(* odd (or zero): the significand with its trailing zero bits removed.   *)
RECURSIVE Odd(_, _)
Odd(mm, x) == IF mm = 0 THEN <<0, 0>>
              ELSE IF mm % 2 = 0 THEN Odd(mm \div 2, x + 1)
              ELSE <<mm, x>>

Dec(f) == IF IsZero(f) THEN <<0, 0>>
          ELSE Odd(MantLo + f.m, f.e - ExpBias - MantBits)

Shl(mm, k) == mm * Pow2(k)
Min(a, b) == IF a < b THEN a ELSE b
Xor(a, b) == IF a = b THEN 0 ELSE 1

(* a * b *)
FMul(a, b) ==
    IF IsNaN(a) \/ IsNaN(b) THEN FNaN
    ELSE IF (IsInf(a) /\ IsZero(b)) \/ (IsZero(a) /\ IsInf(b)) THEN FNaN
    ELSE IF IsInf(a) \/ IsInf(b) THEN FInf(Xor(a.s, b.s))
    ELSE LET da == Dec(a)
             db == Dec(b)
         IN  RoundF(Xor(a.s, b.s), da[1] * db[1], 1, da[2] + db[2])

(* a + b *)
FAdd(a, b) ==
    IF IsNaN(a) \/ IsNaN(b) THEN FNaN
    ELSE IF IsInf(a) /\ IsInf(b) THEN (IF a.s = b.s THEN a ELSE FNaN)
    ELSE IF IsInf(a) THEN a
    ELSE IF IsInf(b) THEN b
    ELSE IF IsZero(a) /\ IsZero(b) THEN (IF a.s = 1 /\ b.s = 1 THEN FNegZero ELSE FZero)
    ELSE LET da == Dec(a)
             db == Dec(b)
             x == IF IsZero(a) THEN db[2]
                  ELSE IF IsZero(b) THEN da[2] ELSE Min(da[2], db[2])
             va == (IF a.s = 1 THEN -1 ELSE 1) * Shl(da[1], IF IsZero(a) THEN 0 ELSE da[2] - x)
             vb == (IF b.s = 1 THEN -1 ELSE 1) * Shl(db[1], IF IsZero(b) THEN 0 ELSE db[2] - x)
             sum == va + vb
         IN  IF sum = 0 THEN FZero
             ELSE RoundF(IF sum < 0 THEN 1 ELSE 0, Abs(sum), 1, x)

(* a / b *)
FDiv(a, b) ==
    IF IsNaN(a) \/ IsNaN(b) THEN FNaN
    ELSE IF (IsInf(a) /\ IsInf(b)) \/ (IsZero(a) /\ IsZero(b)) THEN FNaN
    ELSE IF IsInf(a) \/ IsZero(b) THEN FInf(Xor(a.s, b.s))
    ELSE IF IsInf(b) THEN [s |-> Xor(a.s, b.s), e |-> 0, m |-> 0]
    ELSE LET da == Dec(a)
             db == Dec(b)
         IN  RoundF(Xor(a.s, b.s), da[1], db[1], da[2] - db[2])

(* a == b, a < b, a > b of C on floats *)
FEq(a, b) == /\ ~IsNaN(a)
             /\ ~IsNaN(b)
             /\ \/ IsZero(a) /\ IsZero(b)
                \/ a = b

FLt(a, b) ==
    /\ ~IsNaN(a)
    /\ ~IsNaN(b)
    /\ ~(IsZero(a) /\ IsZero(b))
    /\ IF a.s # b.s THEN a.s = 1
       ELSE IF a.s = 0 THEN a.e < b.e \/ (a.e = b.e /\ a.m < b.m)
       ELSE b.e < a.e \/ (a.e = b.e /\ b.m < a.m)

FGt(a, b) == FLt(b, a)

(* a >= b of C on floats *)
FGe(a, b) == ~IsNaN(a) /\ ~IsNaN(b) /\ ~FLt(a, b)

(* ------------------------------------------------------------------ *)
(* Pointers and input domains                                           *)
(* ------------------------------------------------------------------ *)
(* A pointer argument: NULL, or the array it points to.                 *)
NULL == [null |-> TRUE, mem |-> <<>>]
Ptr(arr) == [null |-> FALSE, mem |-> arr]

RECURSIVE SeqsOfLen(_, _)
SeqsOfLen(S, n) ==
    IF n = 0 THEN {<<>>}
    ELSE {Append(q, v) : q \in SeqsOfLen(S, n - 1), v \in S}

(* float literals of main: 7.5f, 9.0f, 6.0f / 2.0f, 3.0f, 5.0f *)
NotasTeste == <<Flt(15, -1), Flt(9, 0), Flt(6, 0)>>
PesosTeste == <<Flt(2, 0), Flt(3, 0), Flt(5, 0)>>

NotasVals == {NotasTeste[k] : k \in 1..3}
PesosVals == {PesosTeste[k] : k \in 1..3} \cup {FZero, Flt(-5, 0)}

(* float literals of main: 8.5f, 6.2f, 9.8f, 7.5f *)
MediasTeste == <<Flt(17, -1), Flt(6501171, -20), Flt(10276045, -20), Flt(15, -1)>>
MediasVals == {MediasTeste[k] : k \in 1..4} \cup {FNaN}

DesempenhoAluno(id, media) == [id_aluno |-> id, media_final |-> media]
TurmaTeste == [k \in 1..4 |-> DesempenhoAluno(100 + k, MediasTeste[k])]

(* Arrays of length len whose ids are 101, 102, ... as in main, in       *)
(* ascending or in descending order of position.                        *)
Turmas(len) ==
    {[k \in 1..len |-> DesempenhoAluno(IF asc THEN 100 + k ELSE 101 + len - k, ms[k])] :
        ms \in SeqsOfLen(MediasVals, len), asc \in BOOLEAN}

(* ------------------------------------------------------------------ *)
(* comparar_desempenho                                                  *)
(* ------------------------------------------------------------------ *)
(* variants of the comparison, each one slip away from the code *)
comparar_desempenho_crescente(alunoA, alunoB) ==
    IF FLt(alunoA.media_final, alunoB.media_final) THEN -1
    ELSE IF FGt(alunoA.media_final, alunoB.media_final) THEN 1
    ELSE 0

comparar_desempenho_sem_maior(alunoA, alunoB) ==
    IF FLt(alunoA.media_final, alunoB.media_final) THEN 1
    ELSE 0

comparar_desempenho_por_id(alunoA, alunoB) ==
    IF FLt(alunoA.media_final, alunoB.media_final) THEN 1
    ELSE IF FGt(alunoA.media_final, alunoB.media_final) THEN -1
    ELSE IF alunoA.id_aluno < alunoB.id_aluno THEN -1
    ELSE IF alunoA.id_aluno > alunoB.id_aluno THEN 1
    ELSE 0

comparar_desempenho(alunoA, alunoB) ==
    IF FLt(alunoA.media_final, alunoB.media_final) THEN 1
    ELSE IF FGt(alunoA.media_final, alunoB.media_final) THEN -1
    ELSE 0

(* ------------------------------------------------------------------ *)
(* qsort(base, nmemb, size, compar) of the C library, by its contract   *)
(* (C11 7.22.5): if compar is consistent on the nmemb elements, they    *)
(* end up ordered by it and elements that compare equal end up in an    *)
(* unspecified order; if compar is not consistent the behaviour is      *)
(* undefined, taken here as any rearrangement of the elements.          *)
(* ------------------------------------------------------------------ *)
Consistente(arr, n) ==
    \A a \in 1..n, b \in 1..n :
        /\ comparar_desempenho(arr[a], arr[b]) = -comparar_desempenho(arr[b], arr[a])
        /\ \A c \in 1..n :
              (comparar_desempenho(arr[a], arr[b]) <= 0 /\ comparar_desempenho(arr[b], arr[c]) <= 0)
                  => comparar_desempenho(arr[a], arr[c]) <= 0

Rearranjo(arr, n, p) == [k \in 1..Len(arr) |-> IF k <= n THEN arr[p[k]] ELSE arr[k]]

Ordenado(arr, n) ==
    \A a \in 1..n, b \in 1..n : a < b => comparar_desempenho(arr[a], arr[b]) <= 0

(* variant: only the media_final fields are moved, the ids stay *)
QsortResults_so_medias(arr, n) ==
    LET todos == {Rearranjo(arr, n, p) : p \in Permutations(1..n)}
        bons == IF Consistente(arr, n) THEN {r \in todos : Ordenado(r, n)} ELSE todos
    IN  {[k \in 1..Len(arr) |-> DesempenhoAluno(arr[k].id_aluno, r[k].media_final)] : r \in bons}

QsortResults(arr, n) ==
    LET todos == {Rearranjo(arr, n, p) : p \in Permutations(1..n)}
    IN  IF Consistente(arr, n) THEN {r \in todos : Ordenado(r, n)} ELSE todos

(* Whether qsort calls compar: it must for two or more elements, and    *)
(* the C library is free to do so or not for fewer.                     *)
QsortCompara(n) == IF n >= 2 THEN {TRUE} ELSE BOOLEAN

(* ------------------------------------------------------------------ *)
(* State                                                                *)
(* ------------------------------------------------------------------ *)
VARIABLES
    pc,             \* where the running call stands ("idle": no call)
    notas,          \* calcular_media_ponderada: argument notas
    pesos,          \* calcular_media_ponderada: argument pesos
    count,          \* calcular_media_ponderada: argument count
    i,              \* calcular_media_ponderada: loop index
    soma_produtos,  \* calcular_media_ponderada: local
    soma_pesos,     \* calcular_media_ponderada: local
    media,          \* calcular_media_ponderada: returned value
    lidos,          \* indices (0-based) of the array elements read so far
    dividiu,        \* whether the division of line 42 was executed
    desempenhos,    \* ordenar_por_desempenho: argument and the array behind it
    num_alunos,     \* ordenar_por_desempenho: argument
    entrada,        \* the array as it was when ordenar_por_desempenho was called
    comparou,       \* whether comparar_desempenho was invoked during the call
    regs,           \* comparar_desempenho: the records compared
    resultado       \* comparar_desempenho: the values returned

vars == <<pc, notas, pesos, count, i, soma_produtos, soma_pesos, media, lidos,
          dividiu, desempenhos, num_alunos, entrada, comparou, regs, resultado>>

mediaVars == <<notas, pesos, count, i, soma_produtos, soma_pesos, media, lidos, dividiu>>
ordenarVars == <<desempenhos, num_alunos, entrada, comparou>>
compararVars == <<regs, resultado>>

Init ==
    /\ pc = "idle"
    /\ notas = NULL
    /\ pesos = NULL
    /\ count = 0
    /\ i = 0
    /\ soma_produtos = FZero
    /\ soma_pesos = FZero
    /\ media = FZero
    /\ lidos = {}
    /\ dividiu = FALSE
    /\ desempenhos = NULL
    /\ num_alunos = 0
    /\ entrada = NULL
    /\ comparou = FALSE
    /\ regs = <<>>
    /\ resultado = <<>>

(* ------------------------------------------------------------------ *)
(* calcular_media_ponderada                                             *)
(* ------------------------------------------------------------------ *)
(* The arguments a caller passes: for count >= 1 two arrays of count    *)
(* elements, for count <= 0 anything, NULL included.                    *)
ArgsMedia(S, c) ==
    IF c >= 1 THEN {Ptr(q) : q \in SeqsOfLen(S, c)}
    ELSE {NULL} \cup {Ptr(q) : q \in SeqsOfLen(S, 0) \cup SeqsOfLen(S, 1)}

chamar_media ==
    /\ pc = "idle"
    /\ \E c \in -1..MaxCount :
         \E n \in ArgsMedia(NotasVals, c), p \in ArgsMedia(PesosVals, c) :
            /\ notas' = n
            /\ pesos' = p
            /\ count' = c
    /\ pc' = "media_inicio"
    /\ UNCHANGED <<i, soma_produtos, soma_pesos, media, lidos, dividiu>>
    /\ UNCHANGED <<ordenarVars, compararVars>>

(* line 25 *)
ContagemInvalida(c) == c <= 0

(* variant: the loop stops one element early *)
LoopContinua_menos_um(k, c) == k < c - 1

(* line 32 *)
LoopContinua(k, c) == k < c

(* variant: < instead of == *)
SomaPesosZero_menor(sp) == FLt(sp, FZero)

(* line 38 *)
SomaPesosZero(sp) == FEq(sp, FZero)

(* variant: -1.0f as the value for an invalid count *)
media_guarda_menos_um ==
    /\ pc = "media_inicio"
    /\ ContagemInvalida(count)
    /\ media' = Flt(-1, 0)
    /\ pc' = "media_ret"
    /\ UNCHANGED <<notas, pesos, count, i, soma_produtos, soma_pesos, lidos, dividiu>>
    /\ UNCHANGED <<ordenarVars, compararVars>>

(* lines 25-27 *)
media_guarda ==
    /\ pc = "media_inicio"
    /\ ContagemInvalida(count)
    /\ media' = FZero
    /\ pc' = "media_ret"
    /\ UNCHANGED <<notas, pesos, count, i, soma_produtos, soma_pesos, lidos, dividiu>>
    /\ UNCHANGED <<ordenarVars, compararVars>>

(* lines 29-32 *)
media_inicio ==
    /\ pc = "media_inicio"
    /\ ~ContagemInvalida(count)
    /\ soma_produtos' = FZero
    /\ soma_pesos' = FZero
    /\ i' = 0
    /\ pc' = "media_loop"
    /\ UNCHANGED <<notas, pesos, count, media, lidos, dividiu>>
    /\ UNCHANGED <<ordenarVars, compararVars>>

(* An element of the array behind a pointer can be read.                *)
Legivel(ptr, k) == ~ptr.null /\ k >= 0 /\ k < Len(ptr.mem)

(* lines 32-35: one iteration.  Reading through NULL or past the end of *)
(* an array is undefined behaviour; the call is then taken to crash.    *)
media_iteracao ==
    /\ pc = "media_loop"
    /\ LoopContinua(i, count)
    /\ IF Legivel(notas, i) /\ Legivel(pesos, i)
       THEN /\ soma_produtos' = FAdd(soma_produtos, FMul(notas.mem[i + 1], pesos.mem[i + 1]))
            /\ soma_pesos' = FAdd(soma_pesos, pesos.mem[i + 1])
            /\ lidos' = lidos \cup {i}
            /\ i' = i + 1
            /\ pc' = "media_loop"
       ELSE /\ pc' = "falha"
            /\ UNCHANGED <<soma_produtos, soma_pesos, lidos, i>>
    /\ UNCHANGED <<notas, pesos, count, media, dividiu>>
    /\ UNCHANGED <<ordenarVars, compararVars>>

(* lines 38-40 *)
media_soma_zero ==
    /\ pc = "media_loop"
    /\ ~LoopContinua(i, count)
    /\ SomaPesosZero(soma_pesos)
    /\ media' = FZero
    /\ pc' = "media_ret"
    /\ UNCHANGED <<notas, pesos, count, i, soma_produtos, soma_pesos, lidos, dividiu>>
    /\ UNCHANGED <<ordenarVars, compararVars>>

(* line 42 *)
media_divisao ==
    /\ pc = "media_loop"
    /\ ~LoopContinua(i, count)
    /\ ~SomaPesosZero(soma_pesos)
    /\ media' = FDiv(soma_produtos, soma_pesos)
    /\ dividiu' = TRUE
    /\ pc' = "media_ret"
    /\ UNCHANGED <<notas, pesos, count, i, soma_produtos, soma_pesos, lidos>>
    /\ UNCHANGED <<ordenarVars, compararVars>>

(* ------------------------------------------------------------------ *)
(* ordenar_por_desempenho                                               *)
(* ------------------------------------------------------------------ *)
(* The arguments a caller passes: NULL with any length, or an array     *)
(* with a length that does not exceed it.                               *)
chamar_ordenar ==
    /\ pc = "idle"
    /\ \E len \in 0..MaxAlunos :
         \E d \in {NULL} \cup {Ptr(t) : t \in Turmas(len)} :
            \E n \in (IF d.null THEN {len} ELSE {len, len - 1}) \cup {-1} :
               /\ desempenhos' = d
               /\ entrada' = d
               /\ num_alunos' = n
    /\ comparou' = FALSE
    /\ pc' = "ordenar_inicio"
    /\ UNCHANGED <<mediaVars, compararVars>>

(* variants: <= 0 instead of <= 1; the length check alone *)
NadaAOrdenar_sem_um(d, n) == d.null \/ n <= 0

NadaAOrdenar_so_tamanho(d, n) == n <= 1

(* line 71 *)
NadaAOrdenar(d, n) == d.null \/ n <= 1

(* lines 71-73 *)
ordenar_guarda ==
    /\ pc = "ordenar_inicio"
    /\ NadaAOrdenar(desempenhos, num_alunos)
    /\ pc' = "ordenar_ret"
    /\ UNCHANGED <<mediaVars, ordenarVars, compararVars>>

(* line 75.  qsort through NULL, with a negative length (a huge size_t) *)
(* or past the end of the array is undefined behaviour; the call is     *)
(* then taken to crash.                                                 *)
ordenar_qsort ==
    /\ pc = "ordenar_inicio"
    /\ ~NadaAOrdenar(desempenhos, num_alunos)
    /\ IF ~desempenhos.null /\ num_alunos >= 0 /\ num_alunos <= Len(desempenhos.mem)
       THEN /\ \E r \in QsortResults(desempenhos.mem, num_alunos) :
                  desempenhos' = Ptr(r)
            /\ comparou' \in QsortCompara(num_alunos)
            /\ pc' = "ordenar_ret"
       ELSE /\ pc' = "falha"
            /\ UNCHANGED <<desempenhos, comparou>>
    /\ UNCHANGED <<num_alunos, entrada>>
    /\ UNCHANGED <<mediaVars, compararVars>>

(* ------------------------------------------------------------------ *)
(* comparar_desempenho applied to the pairs of three records            *)
(* ------------------------------------------------------------------ *)
Registros == {DesempenhoAluno(id, md) : id \in {101, 102}, md \in MediasVals}

chamar_comparar ==
    /\ pc = "idle"
    /\ \E ra \in Registros, rb \in Registros, rc \in Registros :
          /\ regs' = <<ra, rb, rc>>
          /\ resultado' = [ab |-> comparar_desempenho(ra, rb),
                           ba |-> comparar_desempenho(rb, ra),
                           bc |-> comparar_desempenho(rb, rc),
                           ac |-> comparar_desempenho(ra, rc)]
    /\ pc' = "comparar_ret"
    /\ UNCHANGED <<mediaVars, ordenarVars>>

(* ------------------------------------------------------------------ *)
(* Return to the caller                                                 *)
(* ------------------------------------------------------------------ *)
retornar ==
    /\ pc \in {"media_ret", "ordenar_ret", "comparar_ret"}
    /\ pc' = "idle"
    /\ notas' = NULL
    /\ pesos' = NULL
    /\ count' = 0
    /\ i' = 0
    /\ soma_produtos' = FZero
    /\ soma_pesos' = FZero
    /\ media' = FZero
    /\ lidos' = {}
    /\ dividiu' = FALSE
    /\ desempenhos' = NULL
    /\ num_alunos' = 0
    /\ entrada' = NULL
    /\ comparou' = FALSE
    /\ regs' = <<>>
    /\ resultado' = <<>>

Next ==
    \/ chamar_media
    \/ media_guarda
    \/ media_inicio
    \/ media_iteracao
    \/ media_soma_zero
    \/ media_divisao
    \/ chamar_ordenar
    \/ ordenar_guarda
    \/ ordenar_qsort
    \/ chamar_comparar
    \/ retornar

Spec == Init /\ [][Next]_vars

(* ------------------------------------------------------------------ *)
(* Vocabulary of the properties                                         *)
(* ------------------------------------------------------------------ *)
Medias(arr, n) == [k \in 1..n |-> arr[k].media_final]

SemNaN(arr, n) == \A k \in 1..n : ~IsNaN(arr[k].media_final)

(* every adjacent pair satisfies arr[k] >= arr[k+1] (C's >= on floats)  *)
NaoCrescente(arr, n) ==
    \A k \in 1..(n - 1) : FGe(arr[k].media_final, arr[k + 1].media_final)

EstritamenteDecrescente(arr, n) ==
    \A k \in 1..(n - 1) : FGt(arr[k].media_final, arr[k + 1].media_final)

MediasDistintas(arr, n) ==
    \A a \in 1..n, b \in 1..n : a # b => ~FEq(arr[a].media_final, arr[b].media_final)

Ocorrencias(arr, r) == Cardinality({k \in 1..Len(arr) : arr[k] = r})

(* the same records, each the same number of times *)
MesmoMulticonjunto(arr1, arr2) ==
    /\ Len(arr1) = Len(arr2)
    /\ \A k \in 1..Len(arr1) : Ocorrencias(arr1, arr1[k]) = Ocorrencias(arr2, arr1[k])
    /\ \A k \in 1..Len(arr2) : Ocorrencias(arr1, arr2[k]) = Ocorrencias(arr2, arr2[k])

(* The records of a set with pairwise distinct, comparable scores, best *)
(* first.                                                               *)
RECURSIVE MelhorParaPior(_)
MelhorParaPior(S) ==
    IF S = {} THEN <<>>
    ELSE LET melhor == CHOOSE r \in S :
                          \A q \in S \ {r} : FGt(r.media_final, q.media_final)
         IN  <<melhor>> \o MelhorParaPior(S \ {melhor})

(* The sums of the first n weights and of the first n products, each    *)
(* accumulated from the left in single precision.                       *)
RECURSIVE SomaPesos(_, _)
SomaPesos(ps, n) == IF n = 0 THEN FZero ELSE FAdd(SomaPesos(ps, n - 1), ps[n])

RECURSIVE SomaProdutos(_, _, _)
SomaProdutos(ns, ps, n) ==
    IF n = 0 THEN FZero ELSE FAdd(SomaProdutos(ns, ps, n - 1), FMul(ns[n], ps[n]))

(* r is a float nearest to the exact quotient p / q of two finite       *)
(* floats, q not zero: |r * q - p| <= ulp(r)/2 * |q|, with the sign of  *)
(* the quotient.  Written on integers: r = R * 2^E with R the 24-bit    *)
(* significand, p = P * 2^px, q = Q * 2^qx.                             *)
MaisProximoDoQuociente(r, p, q) ==
    IF IsZero(p) THEN IsZero(r)
    ELSE LET dp == Dec(p)
             dq == Dec(q)
             R == MantLo + r.m
             E == r.e - ExpBias - MantBits
             sh == dp[2] - dq[2] - E
         IN  /\ IsFinite(r) /\ r.e > 0
             /\ r.s = Xor(p.s, q.s)
             /\ sh >= 0
             /\ 2 * Abs(R * dq[1] - dp[1] * Pow2(sh)) <= dq[1]

(* |r - num/den| <= 1/10000, r a positive finite float *)
DentroDaTolerancia(r, num, den) ==
    LET dr == Dec(r)
    IN  /\ dr[2] < 0
        /\ 10000 * Abs(dr[1] * den - num * Pow2(-dr[2])) <= den * Pow2(-dr[2])

(* ------------------------------------------------------------------ *)
(* Properties                                                           *)
(* ------------------------------------------------------------------ *)
Ordenou == pc = "ordenar_ret" /\ ~entrada.null

(* C1 as stated: for every array of n >= 1 records, after               *)
(* ordenar_por_desempenho every adjacent pair of the n records          *)
(* satisfies media_final[k] >= media_final[k+1].                        *)
C1_TodaEntrada ==
    (Ordenou /\ num_alunos >= 1) => NaoCrescente(desempenhos.mem, num_alunos)

(* C1, amended: for every array of n >= 1 records none of whose scores  *)
(* is NaN, after ordenar_por_desempenho every adjacent pair of the n    *)
(* records satisfies media_final[k] >= media_final[k+1].                *)
C1_NaoCrescente ==
    (Ordenou /\ num_alunos >= 1 /\ SemNaN(entrada.mem, num_alunos))
        => NaoCrescente(desempenhos.mem, num_alunos)

C1_Witness ==
    /\ Ordenou /\ comparou
    /\ num_alunos = 3
    /\ SemNaN(entrada.mem, num_alunos)
    /\ ~NaoCrescente(entrada.mem, num_alunos)
    /\ ~MediasDistintas(entrada.mem, num_alunos)
    /\ NaoCrescente(desempenhos.mem, num_alunos)

MediaCalculada == pc = "media_ret" /\ count >= 1

(* C3 as stated: for count >= 1 and weights whose sum is not zero the   *)
(* returned r satisfies r * Sum(pesos) = Sum(notas[k]*pesos[k]), the    *)
(* sums taken from the left over exactly the first count elements (the  *)
(* product r * Sum(pesos) taken as C takes it, in single precision).    *)
C3_ProdutoExato ==
    (MediaCalculada /\ ~FEq(SomaPesos(pesos.mem, count), FZero)) =>
        /\ lidos = 0..(count - 1)
        /\ FEq(FMul(media, SomaPesos(pesos.mem, count)),
               SomaProdutos(notas.mem, pesos.mem, count))

(* C3, amended: for count >= 1 and weights whose accumulated sum is not *)
(* zero, the function reads exactly the first count elements and        *)
(* returns the single-precision quotient of the two sums accumulated    *)
(* from the left, that is a float nearest to their exact ratio, so that *)
(* r * Sum(pesos) = Sum(notas[k]*pesos[k]) holds up to that rounding    *)
(* only; for notas = [7.5, 9.0, 6.0], pesos = [2.0, 3.0, 5.0] it is the *)
(* float nearest to 7.2 (7549747 * 2^-20), within 1e-4 of 72/10.        *)
C3_QuocienteArredondado ==
    (MediaCalculada /\ ~FEq(SomaPesos(pesos.mem, count), FZero)) =>
        /\ lidos = 0..(count - 1)
        /\ dividiu
        /\ soma_pesos = SomaPesos(pesos.mem, count)
        /\ soma_produtos = SomaProdutos(notas.mem, pesos.mem, count)
        /\ MaisProximoDoQuociente(media, SomaProdutos(notas.mem, pesos.mem, count),
                                  SomaPesos(pesos.mem, count))
        /\ (notas.mem = NotasTeste /\ pesos.mem = PesosTeste) =>
               /\ media = Flt(7549747, -20)
               /\ DentroDaTolerancia(media, 72, 10)

C3_Witness ==
    /\ MediaCalculada
    /\ dividiu
    /\ notas.mem = NotasTeste
    /\ pesos.mem = PesosTeste
    /\ media = Flt(7549747, -20)

(* C4: for count >= 1 and weights whose sum is exactly zero (weights    *)
(* that cancel, or all zero) calcular_media_ponderada returns 0.0       *)
(* whatever the scores are, and does not perform the division.          *)
C4_SomaZero ==
    (MediaCalculada /\ FEq(SomaPesos(pesos.mem, count), FZero)) =>
        /\ media = FZero
        /\ ~dividiu

C4_Witness ==
    /\ MediaCalculada
    /\ count = 3
    /\ pesos.mem = <<Flt(2, 0), Flt(3, 0), Flt(-5, 0)>>
    /\ lidos = {0, 1, 2}
    /\ media = FZero

(* C5: for count <= 0 calcular_media_ponderada returns 0.0 whatever the *)
(* two array arguments are, without entering the loop, reading an       *)
(* element or dividing.                                                 *)
C5_ContagemInvalida ==
    /\ (count <= 0 => pc # "media_loop")
    /\ (pc = "media_ret" /\ count <= 0) =>
           /\ media = FZero
           /\ lidos = {}
           /\ ~dividiu

C5_Witness ==
    /\ pc = "media_ret"
    /\ count = -1
    /\ ~notas.null /\ Len(notas.mem) = 1
    /\ pesos.null
    /\ media = FZero

(* C6: ordenar_por_desempenho on an array of zero or one record leaves  *)
(* the array as it was and never invokes comparar_desempenho.           *)
C6_TrivialSort ==
    (Ordenou /\ num_alunos \in {0, 1}) =>
        /\ desempenhos = entrada
        /\ ~comparou

C6_Witness ==
    /\ Ordenou
    /\ num_alunos = 1
    /\ Len(entrada.mem) = 1
    /\ desempenhos = entrada
    /\ ~comparou

JaOrdenada == Ordenou /\ num_alunos >= 0 /\ NaoCrescente(entrada.mem, num_alunos)

SaidaTeste == <<TurmaTeste[3], TurmaTeste[1], TurmaTeste[4], TurmaTeste[2]>>

(* C8 as stated: when the scores are pairwise distinct the result is    *)
(* the one permutation of the input in strictly decreasing score order. *)
C8_Distintas ==
    (Ordenou /\ num_alunos >= 0 /\ MediasDistintas(entrada.mem, num_alunos)) =>
        /\ MesmoMulticonjunto(desempenhos.mem, entrada.mem)
        /\ EstritamenteDecrescente(desempenhos.mem, num_alunos)

(* C8, amended: when the scores are pairwise distinct and none is NaN,  *)
(* the result is the one permutation of the input in strictly           *)
(* decreasing score order, a function of the set of records alone;      *)
(* [{101,8.5},{102,6.2},{103,9.8},{104,7.5}] becomes                    *)
(* [{103,9.8},{101,8.5},{104,7.5},{102,6.2}].                           *)
C8_DistintasSemNaN ==
    (Ordenou /\ num_alunos >= 0 /\ MediasDistintas(entrada.mem, num_alunos)
       /\ SemNaN(entrada.mem, num_alunos)) =>
        /\ MesmoMulticonjunto(desempenhos.mem, entrada.mem)
        /\ EstritamenteDecrescente(desempenhos.mem, num_alunos)
        /\ SubSeq(desempenhos.mem, 1, num_alunos)
             = MelhorParaPior({entrada.mem[k] : k \in 1..num_alunos})
        /\ (entrada.mem = TurmaTeste /\ num_alunos = 4) => desempenhos.mem = SaidaTeste

C8_Witness ==
    /\ Ordenou /\ comparou
    /\ num_alunos = 4
    /\ entrada.mem = TurmaTeste
    /\ desempenhos.mem = SaidaTeste

Comparou == pc = "comparar_ret"

SoMedias(ra, rb) ==
    \A ia \in {101, 102}, ib \in {101, 102} :
        comparar_desempenho(DesempenhoAluno(ia, ra.media_final),
                            DesempenhoAluno(ib, rb.media_final))
            = comparar_desempenho(ra, rb)

(* C9 as stated: comparar_desempenho(A, B) depends on the two scores    *)
(* only; it is -1 exactly when A.media_final > B.media_final, 1 exactly *)
(* when A.media_final < B.media_final and 0 exactly when the scores are *)
(* equal; it is antisymmetric and transitive.                           *)
C9_PreordemTotal ==
    Comparou =>
        LET ma == regs[1].media_final
            mb == regs[2].media_final
        IN  /\ resultado.ab = comparar_desempenho(regs[1], regs[2])
            /\ SoMedias(regs[1], regs[2])
            /\ (resultado.ab = -1) <=> FGt(ma, mb)
            /\ (resultado.ab = 1) <=> FLt(ma, mb)
            /\ (resultado.ab = 0) <=> FEq(ma, mb)
            /\ resultado.ab = -resultado.ba
            /\ (resultado.ab <= 0 /\ resultado.bc <= 0) => resultado.ac <= 0

(* C9, amended: comparar_desempenho(A, B) depends on the two scores     *)
(* only; it is -1 exactly when A.media_final > B.media_final, 1 exactly *)
(* when A.media_final < B.media_final and 0 otherwise, that is when the *)
(* scores are equal or one of them is NaN; it is antisymmetric, and     *)
(* transitive on records whose scores are not NaN.                      *)
C9_PreordemSemNaN ==
    Comparou =>
        LET ma == regs[1].media_final
            mb == regs[2].media_final
            mc == regs[3].media_final
        IN  /\ resultado.ab = comparar_desempenho(regs[1], regs[2])
            /\ SoMedias(regs[1], regs[2])
            /\ (resultado.ab = -1) <=> FGt(ma, mb)
            /\ (resultado.ab = 1) <=> FLt(ma, mb)
            /\ (resultado.ab = 0) <=> (FEq(ma, mb) \/ IsNaN(ma) \/ IsNaN(mb))
            /\ resultado.ab = -resultado.ba
            /\ (~IsNaN(ma) /\ ~IsNaN(mb) /\ ~IsNaN(mc)) =>
                  ((resultado.ab <= 0 /\ resultado.bc <= 0) => resultado.ac <= 0)

C9_Witness ==
    /\ Comparou
    /\ regs[1].id_aluno = 102 /\ regs[2].id_aluno = 101 /\ regs[3].id_aluno = 102
    /\ FGt(regs[1].media_final, regs[2].media_final)
    /\ FEq(regs[2].media_final, regs[3].media_final)
    /\ resultado = [ab |-> -1, ba |-> 1, bc |-> 0, ac |-> -1]

(* C10: called with a NULL array (whatever num_alunos is) or with a     *)
(* negative num_alunos, ordenar_por_desempenho returns without failing, *)
(* changes nothing and never invokes comparar_desempenho.               *)
C10_ForaDoContrato ==
    (pc \in {"ordenar_ret", "falha"} /\ (entrada.null \/ num_alunos < 0)) =>
        /\ pc = "ordenar_ret"
        /\ desempenhos = entrada
        /\ ~comparou

C10_Witness ==
    /\ pc = "ordenar_ret"
    /\ entrada.null
    /\ num_alunos = 4
    /\ desempenhos = entrada
    /\ ~comparou

====
